---- MODULE Spec2Model ----
(***************************************************************************)
(* Model of Sai2Primitives::OTG_joints (src/helper_modules/OTG_joints.cpp), *)
(* the joint-space wrapper around the Ruckig online trajectory generator.   *)
(*                                                                          *)
(* Vectors (Eigen::VectorXd) are functions [1..n -> Int].  Values live on   *)
(* an integer grid: one position unit is travelled in one cycle at one      *)
(* velocity unit, and one velocity unit is 1e-3, the threshold of update(). *)
(* std::numeric_limits<double>::infinity() is the value Infinity.           *)
(*                                                                          *)
(* The same file holds the declaration of OTG_6dof_cartesian, whose members *)
(* carry the same names; SpecPose reads the variables as the members of a   *)
(* pose generator, with _reference_frame, which OTG_joints does not have.   *)
(***************************************************************************)
EXTENDS Integers, Sequences, FiniteSets, TLC

VARIABLES input, output, goal_reached, result_value, call, reference_frame

vars == <<input, output, goal_reached, result_value, call, reference_frame>>

(* ------------------------------ bounds --------------------------------- *)

\* largest position component a caller passes
MaxPos == 2
\* largest goal velocity component a caller passes
MaxVel == 2
\* largest finite limit component a caller passes
MaxLim == 2

(* ----------------------------- constants ------------------------------- *)

\* _dim, fixed by the constructor to initial_position.size()
Dim == 1

\* std::numeric_limits<double>::infinity()
Infinity == 1000000

\* (1e-3)^2 in squared velocity units (one unit is 1e-3)
VelThresholdSq == 1

\* Eigen's dummy precision for double is 1e-12; isApprox compares squared
\* norms against its square, 1e-24 = 1 / (PrecInv ^ 4)
PrecInv == 1000000

(* ------------------------------ vectors -------------------------------- *)

Vec(n, S) == [1..n -> S]

\* VectorXd::Zero(n) / setZero()
Zero(n) == [i \in 1..n |-> 0]

\* setConstant(c)
Constant(n, c) == [i \in 1..n |-> c]

Abs(x) == IF x < 0 THEN -x ELSE x

Min(a, b) == IF a <= b THEN a ELSE b

Max(a, b) == IF a >= b THEN a ELSE b

RECURSIVE SqNormUpTo(_, _)
SqNormUpTo(v, n) == IF n = 0 THEN 0 ELSE v[n] * v[n] + SqNormUpTo(v, n - 1)

\* squaredNorm()
SqNorm(v) == SqNormUpTo(v, Len(v))

RECURSIVE MinCoeffUpTo(_, _)
MinCoeffUpTo(v, n) == IF n = 1 THEN v[1] ELSE Min(v[n], MinCoeffUpTo(v, n - 1))

\* minCoeff(), of a non-empty vector
minCoeff(v) == MinCoeffUpTo(v, Len(v))

\* floor(x * 1e-24)
TimesPrecSq(x) == (((x \div PrecInv) \div PrecInv) \div PrecInv) \div PrecInv

\* a.isApprox(b) for vectors of one size:
\*   (a - b).squaredNorm() <= prec^2 * min(a.squaredNorm(), b.squaredNorm())
\* (both sides are integers here, so comparing with the floor is exact)
isApprox(a, b) ==
    SqNorm([i \in 1..Len(a) |-> a[i] - b[i]])
        <= TimesPrecSq(Min(SqNorm(a), SqNorm(b)))

\* _output.new_velocity.norm() < 1e-3
VelocityBelowThreshold(v) == SqNorm(v) < VelThresholdSq

(* ------------------- the profile solver (Ruckig) ----------------------- *)

\* the solver refuses its input: a velocity limit that is not positive, or
\* a target velocity above the velocity limit
SolverRejects(in) ==
    \E i \in 1..Dim :
        \/ in.max_velocity[i] <= 0
        \/ Abs(in.target_velocity[i]) > in.max_velocity[i]

\* the velocity of axis i over one cycle: towards the target, no faster than
\* the velocity limit, gaining no more speed than the acceleration and jerk
\* limits allow in a cycle, and never past the target
AxisVelocity(in, i) ==
    LET distance == in.target_position[i] - in.current_position[i]
        gain     == Min(in.max_acceleration[i], in.max_jerk[i])
        speed    == Min(Abs(distance),
                        Min(in.max_velocity[i], Abs(in.current_velocity[i]) + gain))
    IN  IF distance < 0 THEN -speed ELSE speed

\* every axis reaches its target position in this cycle
SolverArrives(in) ==
    \A i \in 1..Dim :
        in.current_position[i] + AxisVelocity(in, i) = in.target_position[i]

\* _otg->update(_input, _output): a deterministic function of the input;
\* returns the result value and the output it leaves behind
otg_update(in, out) ==
    IF SolverRejects(in) THEN [result |-> "Error", output |-> out]
    ELSE IF SolverArrives(in) THEN
        [result |-> "Finished",
         output |-> [new_position     |-> in.target_position,
                     new_velocity     |-> in.target_velocity,
                     new_acceleration |-> Zero(Dim)]]
    ELSE
        [result |-> "Working",
         output |-> [new_position     |-> [i \in 1..Dim |->
                                            in.current_position[i] + AxisVelocity(in, i)],
                     new_velocity     |-> [i \in 1..Dim |-> AxisVelocity(in, i)],
                     new_acceleration |-> [i \in 1..Dim |->
                                            AxisVelocity(in, i) - in.current_velocity[i]]]]

\* _output.pass_to_input(_input)
pass_to_input(out, in) ==
    [in EXCEPT !.current_position     = out.new_position,
               !.current_velocity     = out.new_velocity,
               !.current_acceleration = out.new_acceleration]

(* --------------------------- the generator ----------------------------- *)

\* the members of an OTG_joints object
Generator == [input |-> input, output |-> output,
              goal_reached |-> goal_reached, result_value |-> result_value]

\* a call that returns normally, leaving the object as g
Return(g) == [g |-> g, thrown |-> "none"]

\* a call that throws, leaving the object as g; what names the throw statement
Throw(g, what) == [g |-> g, thrown |-> what]

\* the exception type of each throw statement
ExceptionType(what) ==
    CASE what = "size_mismatch" -> "invalid_argument"
      [] what = "non_positive"  -> "invalid_argument"
      [] what = "solver_error"  -> "runtime_error"
      [] OTHER                  -> "none"

\* the setter with the goal-reached flag left alone on a new goal
setGoalPositionAndVelocity_keepsFlag(g, goal_position, goal_velocity) ==
    IF Len(goal_position) # Dim \/ Len(goal_velocity) # Dim
    THEN Throw(g, "size_mismatch")
    ELSE Return([g EXCEPT !.input.target_position = goal_position,
                          !.input.target_velocity = goal_velocity])

\* the setter without the early return on an unchanged goal
setGoalPositionAndVelocity_alwaysRearms(g, goal_position, goal_velocity) ==
    IF Len(goal_position) # Dim \/ Len(goal_velocity) # Dim
    THEN Throw(g, "size_mismatch")
    ELSE Return([g EXCEPT !.goal_reached = FALSE,
                          !.input.target_position = goal_position,
                          !.input.target_velocity = goal_velocity])

setGoalPositionAndVelocity(g, goal_position, goal_velocity) ==
    IF Len(goal_position) # Dim \/ Len(goal_velocity) # Dim
    THEN Throw(g, "size_mismatch")
    ELSE IF /\ isApprox(goal_position, g.input.target_position)
            /\ isApprox(goal_velocity, g.input.target_velocity)
    THEN Return(g)
    ELSE Return([g EXCEPT !.goal_reached = FALSE,
                          !.input.target_position = goal_position,
                          !.input.target_velocity = goal_velocity])

\* OTG_joints.h: setGoalPosition(p) is setGoalPositionAndVelocity(p, zero)
setGoalPosition(g, goal_position) ==
    setGoalPositionAndVelocity(g, goal_position, Zero(Dim))

\* OTG_joints.h: _goal_position_eigen, the goal update() re-issues
goal_position_eigen(g) == g.input.target_position

\* reInitialize writing the output before it checks the size
reInitialize_writesFirst(g, initial_position) ==
    LET out == [new_position     |-> initial_position,
                new_velocity     |-> Zero(Dim),
                new_acceleration |-> Zero(Dim)]
    IN  IF Len(initial_position) # Dim
        THEN Throw([g EXCEPT !.output = out], "size_mismatch")
        ELSE setGoalPosition([g EXCEPT !.output = out,
                                       !.input  = pass_to_input(out, g.input)],
                             initial_position)

\* reInitialize without new_velocity.setZero()
reInitialize_keepsVelocity(g, initial_position) ==
    IF Len(initial_position) # Dim
    THEN Throw(g, "size_mismatch")
    ELSE LET out == [new_position     |-> initial_position,
                     new_velocity     |-> g.output.new_velocity,
                     new_acceleration |-> Zero(Dim)]
         IN  setGoalPosition([g EXCEPT !.output = out,
                                       !.input  = pass_to_input(out, g.input)],
                             initial_position)

\* reInitialize without pass_to_input
reInitialize_keepsInput(g, initial_position) ==
    IF Len(initial_position) # Dim
    THEN Throw(g, "size_mismatch")
    ELSE LET out == [new_position     |-> initial_position,
                     new_velocity     |-> Zero(Dim),
                     new_acceleration |-> Zero(Dim)]
         IN  setGoalPosition([g EXCEPT !.output = out], initial_position)

reInitialize(g, initial_position) ==
    IF Len(initial_position) # Dim
    THEN Throw(g, "size_mismatch")
    ELSE LET out == [new_position     |-> initial_position,
                     new_velocity     |-> Zero(Dim),
                     new_acceleration |-> Zero(Dim)]
         IN  setGoalPosition([g EXCEPT !.output = out,
                                       !.input  = pass_to_input(out, g.input)],
                             initial_position)

\* setMaxVelocity assigning before the positivity check
setMaxVelocity_assignsFirst(g, max_velocity) ==
    IF Len(max_velocity) # Dim THEN Throw(g, "size_mismatch")
    ELSE IF minCoeff(max_velocity) <= 0
    THEN Throw([g EXCEPT !.input.max_velocity = max_velocity], "non_positive")
    ELSE Return([g EXCEPT !.input.max_velocity = max_velocity])

setMaxVelocity(g, max_velocity) ==
    IF Len(max_velocity) # Dim THEN Throw(g, "size_mismatch")
    ELSE IF minCoeff(max_velocity) <= 0 THEN Throw(g, "non_positive")
    ELSE Return([g EXCEPT !.input.max_velocity = max_velocity])

setMaxAcceleration(g, max_acceleration) ==
    IF Len(max_acceleration) # Dim THEN Throw(g, "size_mismatch")
    ELSE IF minCoeff(max_acceleration) <= 0 THEN Throw(g, "non_positive")
    ELSE Return([g EXCEPT !.input.max_acceleration = max_acceleration])

\* setMaxJerk that also resets the current acceleration
setMaxJerk_resetsAcceleration(g, max_jerk) ==
    IF Len(max_jerk) # Dim THEN Throw(g, "size_mismatch")
    ELSE IF minCoeff(max_jerk) <= 0 THEN Throw(g, "non_positive")
    ELSE Return([g EXCEPT !.input.max_jerk = max_jerk,
                          !.input.current_acceleration = Zero(Dim)])

setMaxJerk(g, max_jerk) ==
    IF Len(max_jerk) # Dim THEN Throw(g, "size_mismatch")
    ELSE IF minCoeff(max_jerk) <= 0 THEN Throw(g, "non_positive")
    ELSE Return([g EXCEPT !.input.max_jerk = max_jerk])

\* disableJerkLimits without the reset of the current acceleration
disableJerkLimits_keepsAcceleration(g) ==
    Return([g EXCEPT !.input.max_jerk = Constant(Dim, Infinity)])

disableJerkLimits(g) ==
    Return([g EXCEPT !.input.max_jerk = Constant(Dim, Infinity),
                     !.input.current_acceleration = Zero(Dim)])

\* update setting the flag whenever the solver did not fail
update_flagOnWorking(g) ==
    LET solved == otg_update(g.input, g.output)
        g1     == [g EXCEPT !.result_value = solved.result,
                            !.output = solved.output]
    IN  IF solved.result = "Finished" THEN
            IF VelocityBelowThreshold(g1.output.new_velocity)
            THEN Return([g1 EXCEPT !.goal_reached = TRUE])
            ELSE setGoalPosition(g1, goal_position_eigen(g1))
        ELSE IF solved.result = "Working" THEN
            Return([g1 EXCEPT !.input = pass_to_input(g1.output, g1.input),
                              !.goal_reached = TRUE])
        ELSE Throw(g1, "solver_error")

\* update without the velocity test on Finished
update_noVelocityTest(g) ==
    LET solved == otg_update(g.input, g.output)
        g1     == [g EXCEPT !.result_value = solved.result,
                            !.output = solved.output]
    IN  IF solved.result = "Finished" THEN
            Return([g1 EXCEPT !.goal_reached = TRUE])
        ELSE IF solved.result = "Working" THEN
            Return([g1 EXCEPT !.input = pass_to_input(g1.output, g1.input)])
        ELSE Throw(g1, "solver_error")

\* update re-issuing the current position, not the goal, on residual velocity
update_regoalsAtCurrent(g) ==
    LET solved == otg_update(g.input, g.output)
        g1     == [g EXCEPT !.result_value = solved.result,
                            !.output = solved.output]
    IN  IF solved.result = "Finished" THEN
            IF VelocityBelowThreshold(g1.output.new_velocity)
            THEN Return([g1 EXCEPT !.goal_reached = TRUE])
            ELSE setGoalPosition(g1, g1.input.current_position)
        ELSE IF solved.result = "Working" THEN
            Return([g1 EXCEPT !.input = pass_to_input(g1.output, g1.input)])
        ELSE Throw(g1, "solver_error")

\* update swallowing the solver's error
update_swallowsError(g) ==
    LET solved == otg_update(g.input, g.output)
        g1     == [g EXCEPT !.result_value = solved.result,
                            !.output = solved.output]
    IN  IF solved.result = "Finished" THEN
            IF VelocityBelowThreshold(g1.output.new_velocity)
            THEN Return([g1 EXCEPT !.goal_reached = TRUE])
            ELSE setGoalPosition(g1, goal_position_eigen(g1))
        ELSE IF solved.result = "Working" THEN
            Return([g1 EXCEPT !.input = pass_to_input(g1.output, g1.input)])
        ELSE Return(g1)

\* update without pass_to_input on Working
update_dropsWorkingState(g) ==
    LET solved == otg_update(g.input, g.output)
        g1     == [g EXCEPT !.result_value = solved.result,
                            !.output = solved.output]
    IN  IF solved.result = "Finished" THEN
            IF VelocityBelowThreshold(g1.output.new_velocity)
            THEN Return([g1 EXCEPT !.goal_reached = TRUE])
            ELSE setGoalPosition(g1, goal_position_eigen(g1))
        ELSE IF solved.result = "Working" THEN Return(g1)
        ELSE Throw(g1, "solver_error")

\* update with pass_to_input on Finished as well
update_carriesFinished(g) ==
    LET solved == otg_update(g.input, g.output)
        g1     == [g EXCEPT !.result_value = solved.result,
                            !.output = solved.output]
        g2     == [g1 EXCEPT !.input = pass_to_input(g1.output, g1.input)]
    IN  IF solved.result = "Finished" THEN
            IF VelocityBelowThreshold(g2.output.new_velocity)
            THEN Return([g2 EXCEPT !.goal_reached = TRUE])
            ELSE setGoalPosition(g2, goal_position_eigen(g2))
        ELSE IF solved.result = "Working" THEN Return(g2)
        ELSE Throw(g1, "solver_error")

update(g) ==
    LET solved == otg_update(g.input, g.output)
        g1     == [g EXCEPT !.result_value = solved.result,
                            !.output = solved.output]
    IN  IF solved.result = "Finished" THEN
            IF VelocityBelowThreshold(g1.output.new_velocity)
            THEN Return([g1 EXCEPT !.goal_reached = TRUE])
            ELSE setGoalPosition(g1, goal_position_eigen(g1))
        ELSE IF solved.result = "Working" THEN
            Return([g1 EXCEPT !.input = pass_to_input(g1.output, g1.input)])
        ELSE Throw(g1, "solver_error")

(* ------------------------- inputs of the calls ------------------------- *)

\* a vector of a wrong size: one component short, or one too many
WrongSize(x) == {Constant(Dim - 1, x), Constant(Dim + 1, x)}

\* position arguments
Positions == Vec(Dim, 0..MaxPos) \cup WrongSize(0)

\* goal velocity arguments
Velocities == Vec(Dim, 0..MaxVel) \cup WrongSize(0)

\* limit arguments: valid, with a component <= 0, or of a wrong size
Limits == Vec(Dim, -1..MaxLim) \cup WrongSize(1)

\* what a double that was never written may hold
Uninitialized == {0, 1}

(* ------------------------ initial state, actions ----------------------- *)

\* OTG_joints.h: the member initialisers, as OTG_6dof_cartesian declares them
goal_reached_default == FALSE

result_value_default == "Finished"

\* OTG_joints::OTG_joints: InputParameter(_dim) zeroes the velocities and the
\* current acceleration and sets max_acceleration and max_jerk to infinity;
\* it leaves the positions and max_velocity of an Eigen vector unwritten, as
\* OutputParameter(_dim) does its vectors.  Then reInitialize.
Constructed(initial_position, u1, u2, u3) ==
    reInitialize(
        [input |-> [current_position     |-> u1,
                    current_velocity     |-> Zero(Dim),
                    current_acceleration |-> Zero(Dim),
                    target_position      |-> u2,
                    target_velocity      |-> Zero(Dim),
                    max_velocity         |-> u3,
                    max_acceleration     |-> Constant(Dim, Infinity),
                    max_jerk             |-> Constant(Dim, Infinity)],
         output |-> [new_position |-> u1, new_velocity |-> u2,
                     new_acceleration |-> u3],
         goal_reached |-> goal_reached_default,
         result_value |-> result_value_default],
        initial_position)

\* the object and the record of the last call, after a call returned r
Becomes(r, op) ==
    /\ input' = r.g.input
    /\ output' = r.g.output
    /\ goal_reached' = r.g.goal_reached
    /\ result_value' = r.g.result_value
    /\ call' = [op |-> op, thrown |-> r.thrown, was_reached |-> goal_reached]
    /\ UNCHANGED reference_frame

Init ==
    \E p \in Vec(Dim, 0..MaxPos) :
        \E u1, u2, u3 \in Vec(Dim, Uninitialized) :
            LET r == Constructed(p, u1, u2, u3)
            IN  /\ input = r.g.input
                /\ output = r.g.output
                /\ goal_reached = r.g.goal_reached
                /\ result_value = r.g.result_value
                /\ call = [op |-> "OTG_joints", thrown |-> r.thrown,
                           was_reached |-> FALSE, initial_position |-> p]
                /\ reference_frame = <<>>

Reinitialize ==
    \E p \in Positions : Becomes(reInitialize(Generator, p), "reInitialize")

SetMaxVelocity ==
    \E m \in Limits : Becomes(setMaxVelocity(Generator, m), "setMaxVelocity")

SetMaxAcceleration ==
    \E m \in Limits :
        Becomes(setMaxAcceleration(Generator, m), "setMaxAcceleration")

SetMaxJerk ==
    \E m \in Limits : Becomes(setMaxJerk(Generator, m), "setMaxJerk")

DisableJerkLimits ==
    Becomes(disableJerkLimits(Generator), "disableJerkLimits")

SetGoalPositionAndVelocity ==
    \E p \in Positions, v \in Velocities :
        Becomes(setGoalPositionAndVelocity(Generator, p, v),
                "setGoalPositionAndVelocity")

Update == Becomes(update(Generator), "update")

Next ==
    \/ Reinitialize
    \/ SetMaxVelocity
    \/ SetMaxAcceleration
    \/ SetMaxJerk
    \/ DisableJerkLimits
    \/ SetGoalPositionAndVelocity
    \/ Update

Spec == Init /\ [][Next]_vars

\* the control loop: the caller configures the generator with any calls,
\* then calls update() once per cycle and nothing else
NextRun ==
    \/ call.op # "update" /\ Next
    \/ call.op = "update" /\ Update

SpecRun == Init /\ [][NextRun]_vars /\ WF_vars(Update)

(* ------------------------- OTG_6dof_cartesian -------------------------- *)

\* Ruckig<6, EigenVector>: three linear components, then three components
\* of a rotation vector expressed in _reference_frame
PoseDim == 6

\* v.head<3>()
head3(v) == [i \in 1..3 |-> v[i]]

\* v.tail<3>()
tail3(v) == [i \in 1..3 |-> v[PoseDim - 3 + i]]

\* Matrix3d * Vector3d, the matrix given as its three rows
MatVec(R, v) ==
    [i \in 1..3 |-> R[i][1] * v[1] + R[i][2] * v[2] + R[i][3] * v[3]]

\* the pose generator: the members declared in the class
PoseGenerator ==
    [input |-> input, output |-> output, goal_reached |-> goal_reached,
     result_value |-> result_value, reference_frame |-> reference_frame]

\* OTG_6dof_cartesian::disableJerkLimits()
cartesian_disableJerkLimits(g) ==
    [g EXCEPT !.input.max_jerk = Constant(PoseDim, Infinity)]

getNextPosition(g) == head3(g.output.new_position)

getNextLinearVelocity(g) == head3(g.output.new_velocity)

getNextLinearAcceleration(g) == head3(g.output.new_acceleration)

\* variant: the angular velocity returned in the reference frame
getNextAngularVelocity_unrotated(g) == tail3(g.output.new_velocity)

getNextAngularVelocity(g) ==
    MatVec(g.reference_frame, tail3(g.output.new_velocity))

getNextAngularAcceleration(g) ==
    MatVec(g.reference_frame, tail3(g.output.new_acceleration))

\* Vector3d values: zero and the unit vectors
Vectors3 == {<<0, 0, 0>>, <<1, 0, 0>>, <<0, 1, 0>>, <<0, 0, 1>>}

\* Matrix3d values of _reference_frame: the identity and quarter turns
\* about x and about z
Frames ==
    { << <<1, 0, 0>>, <<0, 1, 0>>, <<0, 0, 1>> >>,
      << <<1, 0, 0>>, <<0, 0, -1>>, <<0, 1, 0>> >>,
      << <<0, -1, 0>>, <<1, 0, 0>>, <<0, 0, 1>> >> }

\* jerk limits of a pose generator: one linear and one angular scalar
PoseJerkLimits == {Constant(PoseDim, 1), <<1, 1, 1, 2, 2, 2>>}

\* a pose generator in the middle of a trajectory: the last sample of the
\* solver is any sample, and it is the next current state of the input
InitPose ==
    \E p \in Vectors3, vl \in Vectors3, va \in Vectors3,
       al \in Vectors3, aa \in Vectors3 :
        \E R \in Frames, j \in PoseJerkLimits :
            /\ output = [new_position     |-> p \o Zero(3),
                         new_velocity     |-> vl \o va,
                         new_acceleration |-> al \o aa]
            /\ input = [current_position     |-> output.new_position,
                        current_velocity     |-> output.new_velocity,
                        current_acceleration |-> output.new_acceleration,
                        target_position      |-> Zero(PoseDim),
                        target_velocity      |-> Zero(PoseDim),
                        max_velocity         |-> Constant(PoseDim, 1),
                        max_acceleration     |-> Constant(PoseDim, 1),
                        max_jerk             |-> j]
            /\ goal_reached = FALSE
            /\ result_value = "Working"
            /\ reference_frame = R
            /\ call = [op |-> "OTG_6dof_cartesian", thrown |-> "none",
                       was_reached |-> FALSE, result |-> <<>>]

\* the pose generator and the record of the last call, after a call that
\* left the generator as g and returned result
PoseBecomes(g, op, result) ==
    /\ input' = g.input
    /\ output' = g.output
    /\ goal_reached' = g.goal_reached
    /\ result_value' = g.result_value
    /\ reference_frame' = g.reference_frame
    /\ call' = [op |-> op, thrown |-> "none", was_reached |-> goal_reached,
                result |-> result]

CartesianDisableJerkLimits ==
    PoseBecomes(cartesian_disableJerkLimits(PoseGenerator),
                "cartesian_disableJerkLimits", <<>>)

GetNextPosition ==
    PoseBecomes(PoseGenerator, "getNextPosition",
                getNextPosition(PoseGenerator))

GetNextLinearVelocity ==
    PoseBecomes(PoseGenerator, "getNextLinearVelocity",
                getNextLinearVelocity(PoseGenerator))

GetNextLinearAcceleration ==
    PoseBecomes(PoseGenerator, "getNextLinearAcceleration",
                getNextLinearAcceleration(PoseGenerator))

GetNextAngularVelocity ==
    PoseBecomes(PoseGenerator, "getNextAngularVelocity",
                getNextAngularVelocity(PoseGenerator))

GetNextAngularAcceleration ==
    PoseBecomes(PoseGenerator, "getNextAngularAcceleration",
                getNextAngularAcceleration(PoseGenerator))

NextPose ==
    \/ CartesianDisableJerkLimits
    \/ GetNextPosition
    \/ GetNextLinearVelocity
    \/ GetNextLinearAcceleration
    \/ GetNextAngularVelocity
    \/ GetNextAngularAcceleration

SpecPose == InitPose /\ [][NextPose]_vars

(* ------------------------------- claims -------------------------------- *)

\* arguments of the generator's size
GoalPositions == Vec(Dim, 0..MaxPos)

GoalVelocities == Vec(Dim, 0..MaxVel)

\* limit vectors of the generator's size with a component <= 0
NonPositiveLimits == {m \in Vec(Dim, -1..MaxLim) : minCoeff(m) <= 0}

SetterOps == {"setMaxVelocity", "setMaxAcceleration", "setMaxJerk"}

\* C1: in every reachable state, SetGoalPositionAndVelocity(p, v) with p or v
\* different from the tracked goal returns normally with the goal-reached
\* flag false and the tracked goal exactly (p, v), whatever the flag was.
C1_NewGoalRearms ==
    \A p \in GoalPositions, v \in GoalVelocities :
        (p # input.target_position \/ v # input.target_velocity) =>
            LET r == setGoalPositionAndVelocity(Generator, p, v)
            IN  /\ r.thrown = "none"
                /\ r.g.goal_reached = FALSE
                /\ r.g.input.target_position = p
                /\ r.g.input.target_velocity = v

\* C1 witness: a new goal was set while the goal was reached, and the flag
\* is now false.
C1_Witness ==
    /\ call.op = "setGoalPositionAndVelocity"
    /\ call.thrown = "none"
    /\ call.was_reached
    /\ ~goal_reached

\* C2: in every reachable state, SetGoalPositionAndVelocity(p, v) with p and v
\* approximately equal to the tracked goal returns normally and changes
\* nothing: flag, goal, current state, output and limits stay as they were.
C2_SameGoalNoOp ==
    \A p \in GoalPositions, v \in GoalVelocities :
        (isApprox(p, input.target_position) /\ isApprox(v, input.target_velocity)) =>
            LET r == setGoalPositionAndVelocity(Generator, p, v)
            IN  r.thrown = "none" /\ r.g = Generator

\* C2 witness: the goal setter returned with the goal still reached.
C2_Witness ==
    /\ call.op = "setGoalPositionAndVelocity"
    /\ call.thrown = "none"
    /\ call.was_reached
    /\ goal_reached

\* C3: after an update() that returned with the goal reached, a further
\* update() leaves the output sample unchanged and the flag true.
C3_SteadyAtGoal ==
    [][(/\ call.op = "update"
        /\ goal_reached
        /\ (result_value = "Finished" \/ ~call.was_reached)
        /\ call'.op = "update")
       => (output' = output /\ goal_reached')]_vars

\* C3 witness: an update() was called with the goal already reached and
\* returned with it reached.
C3_Witness ==
    /\ call.op = "update"
    /\ call.was_reached
    /\ goal_reached
    /\ result_value = "Finished"

\* C4: in every reachable state, each limit setter called with a vector of
\* size N that has a component <= 0 throws invalid_argument and leaves the
\* whole object as it was.
C4_NonPositiveLimitRejected ==
    \A m \in NonPositiveLimits :
        \A r \in {setMaxVelocity(Generator, m),
                  setMaxAcceleration(Generator, m),
                  setMaxJerk(Generator, m)} :
            /\ ExceptionType(r.thrown) = "invalid_argument"
            /\ r.g = Generator

\* C4 witness: a limit setter threw on a non-positive component after valid
\* limits had been set.
C4_Witness ==
    /\ call.op \in SetterOps
    /\ call.thrown = "non_positive"
    /\ input.max_velocity = Constant(Dim, MaxLim)
    /\ input.max_acceleration = Constant(Dim, MaxLim)
    /\ input.max_jerk = Constant(Dim, MaxLim)

\* C5: in every reachable state, Reinitialize, SetGoalPositionAndVelocity and
\* the three limit setters called with a vector whose size is not N throw
\* invalid_argument and leave the whole object as it was.
C5_WrongSizeRejected ==
    /\ \A w \in WrongSize(1) :
        \A r \in {reInitialize(Generator, w),
                  setMaxVelocity(Generator, w),
                  setMaxAcceleration(Generator, w),
                  setMaxJerk(Generator, w)} :
            /\ ExceptionType(r.thrown) = "invalid_argument"
            /\ r.g = Generator
    /\ \A w \in WrongSize(1), p \in GoalPositions \cup WrongSize(0),
          v \in GoalVelocities \cup WrongSize(0) :
        \A r \in {setGoalPositionAndVelocity(Generator, w, v),
                  setGoalPositionAndVelocity(Generator, p, w)} :
            /\ ExceptionType(r.thrown) = "invalid_argument"
            /\ r.g = Generator

\* C5 witness: Reinitialize threw on a wrong size in the middle of a
\* trajectory.
C5_Witness ==
    /\ call.op = "reInitialize"
    /\ call.thrown = "size_mismatch"
    /\ result_value = "Working"
    /\ output.new_velocity # Zero(Dim)

\* the sample at rest at position p
AtRest(p) == [new_position     |-> p,
              new_velocity     |-> Zero(Dim),
              new_acceleration |-> Zero(Dim)]

\* C6: right after the constructor the output sample is initial_position at
\* rest, the tracked goal is initial_position with zero velocity and the
\* goal-reached flag is false; no call other than update() turns a false
\* flag true.
C6_ConstructedAtRest ==
    /\ [](call.op = "OTG_joints" =>
            /\ call.thrown = "none"
            /\ output = AtRest(call.initial_position)
            /\ input.target_position = call.initial_position
            /\ input.target_velocity = Zero(Dim)
            /\ ~goal_reached)
    /\ [][(~goal_reached /\ call'.op # "update") => ~goal_reached']_vars

\* C6 witness: a generator just constructed at a position other than zero.
C6_Witness ==
    /\ call.op = "OTG_joints"
    /\ call.initial_position = Constant(Dim, MaxPos)
    /\ output.new_position = Constant(Dim, MaxPos)
    /\ ~goal_reached

\* C7: in every reachable state in the middle of a trajectory (the last
\* update() returned Working, goal not reached), Reinitialize(p) with p of
\* size N returns with output and current state at p at rest, the tracked
\* goal at (p, zero velocity) and the flag false.
C7_ReinitializeMidTrajectory ==
    (result_value = "Working" /\ ~goal_reached) =>
        \A p \in GoalPositions :
            LET r == reInitialize(Generator, p)
            IN  /\ r.thrown = "none"
                /\ r.g.output = AtRest(p)
                /\ r.g.input.current_position = p
                /\ r.g.input.current_velocity = Zero(Dim)
                /\ r.g.input.current_acceleration = Zero(Dim)
                /\ r.g.input.target_position = p
                /\ r.g.input.target_velocity = Zero(Dim)
                /\ ~r.g.goal_reached

\* C7 witness: Reinitialize returned after an update() that returned Working,
\* with the generator at rest at its new goal.
C7_Witness ==
    /\ call.op = "reInitialize"
    /\ call.thrown = "none"
    /\ result_value = "Working"
    /\ ~goal_reached
    /\ output = AtRest(input.target_position)
    /\ input.current_position = input.target_position

\* C8: the flag turns from false to true only in an update() whose solver
\* result is Finished and whose output velocity norm is below the threshold.
C8_ReachedOnlyByUpdate ==
    [][(~goal_reached /\ goal_reached') =>
        /\ call'.op = "update"
        /\ result_value' = "Finished"
        /\ VelocityBelowThreshold(output'.new_velocity)]_vars

\* C8 witness: an update() turned the flag from false to true.
C8_Witness ==
    /\ call.op = "update"
    /\ ~call.was_reached
    /\ goal_reached

RECURSIVE DistanceUpTo(_, _, _)
DistanceUpTo(a, b, n) ==
    IF n = 0 THEN 0 ELSE DistanceUpTo(a, b, n - 1) + Abs(a[n] - b[n])

\* what is left before the flag can turn true: the way from the current
\* position to the goal position, and a goal velocity still to be cleared
Remaining(in) ==
    2 * DistanceUpTo(in.target_position, in.current_position, Dim)
        + (IF in.target_velocity = Zero(Dim) THEN 0 ELSE 1)

C12_DisableJerkLimits ==
    [][call'.op = "disableJerkLimits" =>
        /\ call'.thrown = "none"
        /\ input' = [input EXCEPT !.max_jerk = Constant(Dim, Infinity),
                                  !.current_acceleration = Zero(Dim)]
        /\ output' = output
        /\ goal_reached' = goal_reached]_vars

\* C12 witness: DisableJerkLimits() returned in the middle of a trajectory
\* whose last sample, carried into the input, had a nonzero acceleration.
C12_Witness ==
    /\ call.op = "disableJerkLimits"
    /\ result_value = "Working"
    /\ output.new_acceleration # Zero(Dim)
    /\ input.current_velocity = output.new_velocity
    /\ input.current_acceleration = Zero(Dim)
    /\ input.max_jerk = Constant(Dim, Infinity)


\* C13: every DisableJerkLimits() call on a pose generator returns with all
\* six jerk limits at infinity and all six components of the current
\* acceleration zero, also in the middle of a trajectory.
C13_PoseDisableJerkLimits ==
    [][call'.op = "cartesian_disableJerkLimits" =>
        /\ input'.max_jerk = Constant(PoseDim, Infinity)
        /\ input'.current_acceleration = Zero(PoseDim)]_vars

\* column j of a Matrix3d
Column(R, j) == [i \in 1..3 |-> R[i][j]]

\* the vector w[1] * (column 1 of R) + w[2] * (column 2) + w[3] * (column 3)
Rotated(R, w) ==
    [i \in 1..3 |-> w[1] * Column(R, 1)[i] + w[2] * Column(R, 2)[i]
                    + w[3] * Column(R, 3)[i]]

\* C14: the angular velocity and angular acceleration getters of the pose
\* generator return the last three components of the output velocity and
\* acceleration rotated by the reference frame; the position, linear
\* velocity and linear acceleration getters return the first three
\* components of the output as they are.
C14_PoseGetters ==
    /\ call.op = "getNextAngularVelocity" =>
        call.result = Rotated(reference_frame,
                              <<output.new_velocity[4], output.new_velocity[5],
                                output.new_velocity[6]>>)
    /\ call.op = "getNextAngularAcceleration" =>
        call.result = Rotated(reference_frame,
                              <<output.new_acceleration[4],
                                output.new_acceleration[5],
                                output.new_acceleration[6]>>)
    /\ call.op = "getNextPosition" =>
        call.result = <<output.new_position[1], output.new_position[2],
                        output.new_position[3]>>
    /\ call.op = "getNextLinearVelocity" =>
        call.result = <<output.new_velocity[1], output.new_velocity[2],
                        output.new_velocity[3]>>
    /\ call.op = "getNextLinearAcceleration" =>
        call.result = <<output.new_acceleration[1], output.new_acceleration[2],
                        output.new_acceleration[3]>>

\* C14 witness: the angular velocity getter returned a vector that the
\* reference frame turned away from the solver's own components, next to a
\* nonzero linear velocity.
C14_Witness ==
    /\ call.op = "getNextAngularVelocity"
    /\ call.result # tail3(output.new_velocity)
    /\ call.result # Zero(3)
    /\ head3(output.new_velocity) # Zero(3)


\* C15: every Reinitialize(new_position) call with a position of the
\* generator's size, in any state, also one where the flag is true and
\* new_position is the tracked goal position, returns with the flag false,
\* the velocity and acceleration zero, and the tracked goal at
\* (new_position, zero velocity).
C15_ReinitializeResets ==
    [][(call'.op = "reInitialize" /\ call'.thrown = "none") =>
        /\ ~goal_reached'
        /\ output'.new_velocity = Zero(Dim)
        /\ output'.new_acceleration = Zero(Dim)
        /\ input'.current_position = output'.new_position
        /\ input'.current_velocity = Zero(Dim)
        /\ input'.current_acceleration = Zero(Dim)
        /\ input'.target_position = output'.new_position
        /\ input'.target_velocity = Zero(Dim)]_vars


\* C16: in every state where the goal-reached flag is true, after any calls,
\* the output sample has a velocity norm below the threshold, its position is
\* the tracked goal position, and the solver result of the most recent
\* update() was Finished.
C16_ReachedMeansAtGoal ==
    goal_reached =>
        /\ VelocityBelowThreshold(output.new_velocity)
        /\ output.new_position = input.target_position
        /\ result_value = "Finished"


\* the current state held in an input
CurrentState(in) ==
    <<in.current_position, in.current_velocity, in.current_acceleration>>

\* the tracked goal held in an input
TrackedGoal(in) == <<in.target_position, in.target_velocity>>

\* the limits held in an input
LimitsOf(in) == <<in.max_velocity, in.max_acceleration, in.max_jerk>>

\* C17: an update() that gets Working from the solver leaves, as the current
\* state of the next update()'s input, the output sample of this call, and
\* leaves the tracked goal, the limits and the goal-reached flag as they
\* were; an update() that gets Finished leaves the current state of the
\* input as it was.
C17_WorkingCarriesState ==
    [][call'.op = "update" =>
        /\ result_value' = "Working" =>
            /\ call'.thrown = "none"
            /\ CurrentState(input') = <<output'.new_position,
                                        output'.new_velocity,
                                        output'.new_acceleration>>
            /\ TrackedGoal(input') = TrackedGoal(input)
            /\ LimitsOf(input') = LimitsOf(input)
            /\ goal_reached' = goal_reached
        /\ result_value' = "Finished" =>
            CurrentState(input') = CurrentState(input)]_vars

\* C17 witness: an update() got Working and its sample, with a nonzero
\* velocity and acceleration, is the current state of the input.
C17_Witness ==
    /\ call.op = "update"
    /\ result_value = "Working"
    /\ output.new_velocity # Zero(Dim)
    /\ output.new_acceleration # Zero(Dim)
    /\ CurrentState(input) = <<output.new_position, output.new_velocity,
                               output.new_acceleration>>


\* C18: in every state, from construction on and after any successful or
\* failed calls, every component of the velocity limit and of the
\* acceleration limit handed to the solver is strictly positive, and every
\* component of the jerk limit is strictly positive or infinity.
C18_LimitsPositive ==
    \A i \in 1..Dim :
        /\ input.max_velocity[i] > 0
        /\ input.max_acceleration[i] > 0
        /\ (input.max_jerk[i] > 0 \/ input.max_jerk[i] = Infinity)


\* the object apart from its input is as it was
RestUnchanged ==
    /\ output' = output
    /\ goal_reached' = goal_reached
    /\ result_value' = result_value

\* C19: a SetMaxVelocity, SetMaxAcceleration or SetMaxJerk call that returns
\* normally, in any state, puts its argument in the place of the limit it
\* addresses and leaves the two other limits, the current state, the output
\* sample, the tracked goal and the goal-reached flag as they were; every
\* update() hands the solver the input that holds these limits, and the
\* sample it gets back keeps within the velocity limit.
C19_SetterReplacesOneLimit ==
    [][/\ (call'.op \in SetterOps /\ call'.thrown = "none") =>
            \A m \in Limits :
                /\ Becomes(setMaxVelocity(Generator, m), "setMaxVelocity") =>
                    /\ input' = [input EXCEPT !.max_velocity = m]
                    /\ RestUnchanged
                /\ Becomes(setMaxAcceleration(Generator, m),
                           "setMaxAcceleration") =>
                    /\ input' = [input EXCEPT !.max_acceleration = m]
                    /\ RestUnchanged
                /\ Becomes(setMaxJerk(Generator, m), "setMaxJerk") =>
                    /\ input' = [input EXCEPT !.max_jerk = m]
                    /\ RestUnchanged
       /\ (call'.op = "update" /\ call'.thrown = "none") =>
            /\ result_value' = otg_update(input, output).result
            /\ output' = otg_update(input, output).output
            /\ \A i \in 1..Dim :
                Abs(output'.new_velocity[i]) <= input.max_velocity[i]]_vars

\* C19 witness: in the middle of a trajectory that runs at velocity 1, the
\* velocity limit of its last update(), SetMaxVelocity returned with the
\* limit raised to 2, the current state and the output sample still those of
\* that update().
C19_Witness ==
    /\ call.op = "setMaxVelocity"
    /\ call.thrown = "none"
    /\ result_value = "Working"
    /\ ~goal_reached
    /\ input.max_velocity = Constant(Dim, 2)
    /\ input.max_acceleration = Constant(Dim, Infinity)
    /\ input.max_jerk = Constant(Dim, Infinity)
    /\ input.current_velocity = Constant(Dim, 1)
    /\ output.new_velocity = Constant(Dim, 1)
    /\ output.new_acceleration = Constant(Dim, 1)

====
